---- MODULE Spec2Model ----
(***************************************************************************)
(* A model of the RAG-agent backend: the ingestion routes and services,    *)
(* the GitHub activity analyzer and the chat (retrieval and synthesis)     *)
(* handler.                                                                *)
(*                                                                         *)
(* A Python string is a sequence of symbols, so that startswith, rstrip,    *)
(* split, strip, in and int() are computed, not assumed. A symbol is one    *)
(* character, or a word that holds no "/", no digit, no comma and no        *)
(* whitespace and is written as one symbol for short.                       *)
(* ISO dates are natural numbers: their order is the order of the date     *)
(* strings the code sorts and compares.                                    *)
(***************************************************************************)
EXTENDS Integers, Sequences, FiniteSets, Bags, TLC

VARIABLES
    store,          \* the vector store collection: a bag of chunks
    temp_dirs,      \* the temporary directories that exist
    resp,           \* the response to the last ingestion request
    req,            \* the last ingestion request (who asked, what, which handler ran)
    chat_pc,        \* the chat request's position: idle, streaming, done, error, aborted
    chat_user,      \* chat: current_user.id
    docs,           \* chat: the retrieved documents
    context_text,   \* chat: the context window
    sources,        \* chat: the citation list
    sent,           \* chat: what the transport has delivered to the client so far
    pc,             \* analyzer: position in scrape_github_profile
    url,            \* analyzer: the profile URL it was called with
    today,          \* analyzer: datetime.now() as a date
    token,          \* analyzer: settings.GITHUB_TOKEN configured or not
    profile_data,   \* analyzer: the statistics record
    days,           \* analyzer: the sorted contribution days
    before,         \* analyzer: profile_data as it was when the current sub-step began
    failed          \* analyzer: the sub-steps that failed in this call

vars == <<store, temp_dirs, resp, req, chat_pc, chat_user, docs, context_text, sources, sent,
          pc, url, today, token, profile_data, days, before, failed>>

pipelineVars == <<store, temp_dirs, resp, req, chat_pc, chat_user, docs, context_text, sources, sent>>
analyzerVars == <<pc, url, today, token, profile_data, days, before, failed>>

----------------------------------------------------------------------------
(* Bounds of the model *)

MaxDays == 4        \* contribution days in a calendar, and the range of their dates
MaxCells == 2       \* calendar cells when the analyzer is run as a whole
MaxStore == 1       \* chunks in the vector store, under the HTTP API
MaxChunks == 4      \* chunks in the vector store, under the service calls
MaxTexts == 3       \* texts in one embed_batch call
MaxTokens == 1      \* tokens the language model streams

----------------------------------------------------------------------------
(* Strings *)

\* "https://github.com/"
GithubPrefix == <<"https:", "/", "/", "github.com", "/">>

StartsWith(s, p) == Len(s) >= Len(p) /\ SubSeq(s, 1, Len(p)) = p

\* sub in s
Contains(s, sub) ==
    \E i \in 1..(Len(s) - Len(sub) + 1) : SubSeq(s, i, i + Len(sub) - 1) = sub

\* s.rstrip(c)
RECURSIVE RStrip(_, _)
RStrip(s, c) ==
    IF s # <<>> /\ s[Len(s)] = c THEN RStrip(SubSeq(s, 1, Len(s) - 1), c) ELSE s

Whitespace == {" ", "\n", "\t"}

RECURSIVE LStripWhitespace(_)
LStripWhitespace(s) ==
    IF s # <<>> /\ s[1] \in Whitespace THEN LStripWhitespace(Tail(s)) ELSE s

RECURSIVE RStripWhitespace(_)
RStripWhitespace(s) ==
    IF s # <<>> /\ s[Len(s)] \in Whitespace
    THEN RStripWhitespace(SubSeq(s, 1, Len(s) - 1)) ELSE s

\* s.strip()
Strip(s) == LStripWhitespace(RStripWhitespace(s))

\* s.split(c) for a one-character separator
RECURSIVE Split(_, _)
Split(s, c) ==
    IF s = <<>> THEN << <<>> >>
    ELSE LET rest == Split(Tail(s), c)
         IN  IF s[1] = c THEN << <<>> >> \o rest
             ELSE << <<s[1]>> \o rest[1] >> \o Tail(rest)

Max(a, b) == IF a >= b THEN a ELSE b
Min(a, b) == IF a <= b THEN a ELSE b

Digits == <<"0", "1", "2", "3", "4", "5", "6", "7", "8", "9">>

IsDigit(c) == \E i \in DOMAIN Digits : Digits[i] = c

DigitVal(c) == (CHOOSE i \in DOMAIN Digits : Digits[i] = c) - 1

RECURSIVE DecimalValue(_)
DecimalValue(s) ==
    IF s = <<>> THEN 0
    ELSE 10 * DecimalValue(SubSeq(s, 1, Len(s) - 1)) + DigitVal(s[Len(s)])

\* int(s) for a string of decimal digits; anything else raises ValueError.
ParseInt(s) ==
    IF s # <<>> /\ \A i \in DOMAIN s : IsDigit(s[i])
    THEN [ok |-> TRUE, val |-> DecimalValue(s)]
    ELSE [ok |-> FALSE, val |-> 0]

----------------------------------------------------------------------------
(* The GitHub activity analyzer: streak statistics *)

DefaultProfileData ==
    [totalContributions |-> 0, commits |-> 0, issues |-> 0, pullRequests |-> 0,
     reviews |-> 0, repos |-> 0, currentStreak |-> 0, longestStreak |-> 0,
     activeDays |-> 0, isExact |-> FALSE]

\* A calendar cell is a record of the attributes it carries: data-date and
\* data-count may each be missing.
CellCount(cell) == IF "count" \in DOMAIN cell THEN cell.count ELSE <<"0">>

\* The loop over td.ContributionCalendar-day: cells without a date are skipped,
\* int(count_str) of a dated cell may raise.
RECURSIVE ParseCells(_)
ParseCells(cells) ==
    IF cells = <<>> THEN [ok |-> TRUE, days |-> <<>>]
    ELSE LET rest == ParseCells(SubSeq(cells, 1, Len(cells) - 1))
             cell == cells[Len(cells)]
             n == ParseInt(CellCount(cell))
         IN  IF ~rest.ok THEN rest
             ELSE IF "date" \notin DOMAIN cell THEN rest
             ELSE IF ~n.ok THEN [ok |-> FALSE, days |-> <<>>]
             ELSE [ok |-> TRUE,
                   days |-> Append(rest.days, [date |-> cell.date, count |-> n.val])]

\* list.sort(key=date): a stable sort, here by insertion.
RECURSIVE InsertByDate(_, _)
InsertByDate(sorted, d) ==
    IF sorted = <<>> THEN <<d>>
    ELSE IF sorted[Len(sorted)].date <= d.date THEN Append(sorted, d)
    ELSE Append(InsertByDate(SubSeq(sorted, 1, Len(sorted) - 1), d), sorted[Len(sorted)])

RECURSIVE SortByDate(_)
SortByDate(s) ==
    IF s = <<>> THEN <<>>
    ELSE InsertByDate(SortByDate(SubSeq(s, 1, Len(s) - 1)), s[Len(s)])

RECURSIVE LongestLoop(_, _, _, _)
LongestLoop(ds, i, longest_streak, temp_streak) ==
    IF i > Len(ds) THEN [longest |-> longest_streak, temp |-> temp_streak]
    ELSE IF ds[i].count > 0
         THEN LongestLoop(ds, i + 1, longest_streak, temp_streak + 1)
         ELSE LongestLoop(ds, i + 1, Max(longest_streak, temp_streak), 0)

LongestStreakNoFlush(ds) == LongestLoop(ds, 1, 0, 0).longest

LongestStreak(ds) ==
    LET r == LongestLoop(ds, 1, 0, 0) IN Max(r.longest, r.temp)

RECURSIVE CurrentLoop(_, _, _, _)
CurrentLoop(ds, i, now, current_streak) ==
    IF i < 1 THEN current_streak
    ELSE IF ds[i].count > 0 THEN CurrentLoop(ds, i - 1, now, current_streak + 1)
    ELSE IF ds[i].date = now THEN CurrentLoop(ds, i - 1, now, current_streak)
    ELSE current_streak

RECURSIVE CurrentLoopNoSkip(_, _, _)
CurrentLoopNoSkip(ds, i, current_streak) ==
    IF i < 1 THEN current_streak
    ELSE IF ds[i].count > 0 THEN CurrentLoopNoSkip(ds, i - 1, current_streak + 1)
    ELSE current_streak

CurrentStreakNoSkip(ds, now) == CurrentLoopNoSkip(ds, Len(ds), 0)

CurrentStreak(ds, now) == CurrentLoop(ds, Len(ds), now, 0)

ActiveDays(ds) == Cardinality({i \in DOMAIN ds : ds[i].count > 0})

----------------------------------------------------------------------------
(* The GitHub activity analyzer: the three sub-steps of scrape_github_profile *)

Null == [null |-> TRUE]
IsNull(x) == "null" \in DOMAIN x

\* dict.get(key) is truthy: the key is there and its value is not null.
Has(d, key) == key \in DOMAIN d /\ ~IsNull(d[key])

\* 1. The profile page: the repositories-tab counter.
ScrapeMain(pd, res) ==
    IF res.kind = "exception" THEN [pd |-> pd, failed |-> TRUE]
    ELSE IF res.status_code # 200 THEN [pd |-> pd, failed |-> TRUE]
    ELSE IF "counter" \notin DOMAIN res THEN [pd |-> pd, failed |-> FALSE]
    ELSE LET n == ParseInt(res.counter)
         IN  IF n.ok THEN [pd |-> [pd EXCEPT !.repos = n.val], failed |-> FALSE]
             ELSE [pd |-> pd, failed |-> FALSE]

\* text.replace(',', '')
RECURSIVE RemoveCommas(_)
RemoveCommas(s) ==
    IF s = <<>> THEN <<>>
    ELSE IF s[1] = "," THEN RemoveCommas(Tail(s))
    ELSE <<s[1]>> \o RemoveCommas(Tail(s))

RECURSIVE DigitRun(_)
DigitRun(s) ==
    IF s = <<>> \/ ~IsDigit(s[1]) THEN <<>> ELSE <<s[1]>> \o DigitRun(Tail(s))

\* re.findall(r'\d+', s)[0] when there is one, <<>> when there is none.
RECURSIVE FirstNumber(_)
FirstNumber(s) ==
    IF s = <<>> THEN <<>>
    ELSE IF IsDigit(s[1]) THEN DigitRun(s)
    ELSE FirstNumber(Tail(s))

Headline(pd, res) ==
    IF "h2" \notin DOMAIN res THEN pd
    ELSE LET nums == FirstNumber(RemoveCommas(res.h2))
         IN  IF nums = <<>> THEN pd
             ELSE [pd EXCEPT !.totalContributions = ParseInt(nums).val]

\* 2. The contribution calendar: headline total, then the days and the streaks.
\*    An exception leaves what was assigned before it.
ScrapeContributions(pd, res, now) ==
    IF res.kind = "exception" THEN [pd |-> pd, days |-> <<>>, failed |-> TRUE]
    ELSE IF res.status_code # 200 THEN [pd |-> pd, days |-> <<>>, failed |-> TRUE]
    ELSE LET pd1 == Headline(pd, res)
             parsed == ParseCells(res.cells)
             ds == SortByDate(parsed.days)
         IN  IF ~parsed.ok THEN [pd |-> pd1, days |-> <<>>, failed |-> TRUE]
             ELSE [pd |-> [pd1 EXCEPT !.currentStreak = CurrentStreak(ds, now),
                                      !.longestStreak = LongestStreak(ds),
                                      !.activeDays = ActiveDays(ds)],
                   days |-> ds, failed |-> FALSE]

\* The four assignments from contributionsCollection, in order; a missing key
\* raises KeyError and keeps the assignments made before it.
CollectionKeys ==
    << <<"totalCommitContributions", "commits">>,
       <<"totalIssueContributions", "issues">>,
       <<"totalPullRequestContributions", "pullRequests">>,
       <<"totalPullRequestReviewContributions", "reviews">> >>

RECURSIVE AssignCollection(_, _, _)
AssignCollection(pd, cc, i) ==
    IF i > Len(CollectionKeys)
    THEN [pd |-> [pd EXCEPT !.isExact = TRUE], failed |-> FALSE]
    ELSE IF CollectionKeys[i][1] \notin DOMAIN cc THEN [pd |-> pd, failed |-> TRUE]
    ELSE AssignCollection([pd EXCEPT ![CollectionKeys[i][2]] = cc[CollectionKeys[i][1]]],
                          cc, i + 1)

\* 3. GraphQL, when a token is configured.
GraphQL(pd, tok, res) ==
    IF ~tok THEN [pd |-> pd, failed |-> FALSE]
    ELSE IF res.kind = "exception" THEN [pd |-> pd, failed |-> TRUE]
    ELSE LET data == res.json
         IN  IF "data" \notin DOMAIN data THEN [pd |-> pd, failed |-> TRUE]
             ELSE IF IsNull(data.data) THEN [pd |-> pd, failed |-> TRUE]
             ELSE IF ~Has(data.data, "user") THEN [pd |-> pd, failed |-> TRUE]
             ELSE LET user == data.data.user
                      pd1 == IF Has(user, "repositories")
                             THEN [pd EXCEPT !.repos = user.repositories.totalCount]
                             ELSE pd
                  IN  IF Has(user, "contributionsCollection")
                      THEN AssignCollection(pd1, user.contributionsCollection, 1)
                      ELSE [pd |-> pd1, failed |-> TRUE]

\* url.split("/")[-1]
Username(u) == LET parts == Split(u, "/") IN parts[Len(parts)]

\* The f-string summary: every field but isExact, under fixed labels.
Summary(u, pd) ==
    [username |-> Username(u), url |-> u, repos |-> pd.repos,
     totalContributions |-> pd.totalContributions, commits |-> pd.commits,
     issues |-> pd.issues, pullRequests |-> pd.pullRequests, reviews |-> pd.reviews,
     currentStreak |-> pd.currentStreak, longestStreak |-> pd.longestStreak,
     activeDays |-> pd.activeDays]

ProfileMetadata(u) == [source |-> u, type |-> "profile"]

ProfileChunk(u, pd) ==
    [page_content |-> [summary |-> Summary(u, pd)], metadata |-> ProfileMetadata(u)]

----------------------------------------------------------------------------
(* The vector store and the ingestion services *)

RECURSIVE BagOfSeq(_)
BagOfSeq(q) == IF q = <<>> THEN EmptyBag ELSE SetToBag({Head(q)}) (+) BagOfSeq(Tail(q))

\* vector_store.aadd_documents(documents): every document is inserted, or the
\* embedding provider or the database raises and none is.
aadd_documents(collection, documents, ok) ==
    IF ok THEN collection (+) BagOfSeq(documents) ELSE collection

\* RecursiveCharacterTextSplitter(chunk_size=1000, chunk_overlap=200).split_text for
\* a text no longer than chunk_size, as every text drawn here is: the pieces are
\* merged back into one chunk, stripped, and an empty chunk is dropped.
split_text(text) == IF Strip(text) = <<>> THEN <<>> ELSE <<Strip(text)>>

create_documents(text, metadata) ==
    [i \in DOMAIN split_text(text) |->
        [page_content |-> [text |-> split_text(text)[i]], metadata |-> metadata]]

TextMetadata(source, user_id) == [source |-> source, user_id |-> user_id]

\* ingest_text(text, source, user_id): the documents, the call's result
ingest_text(text, source, user_id, ok) ==
    LET chunks == create_documents(text, TextMetadata(source, user_id))
    IN  IF ok THEN [written |-> chunks, raised |-> FALSE, count |-> Len(chunks)]
        ELSE [written |-> <<>>, raised |-> TRUE, count |-> 0]

\* The three sub-steps of scrape_github_profile in a row
profile_data_of(main, contrib, tok, graphql, now) ==
    LET pd1 == ScrapeMain(DefaultProfileData, main).pd
        pd2 == ScrapeContributions(pd1, contrib, now).pd
    IN  GraphQL(pd2, tok, graphql).pd

\* scrape_github_profile(url): the summary chunk, the call's result
scrape_github_profile(u, pd, ok) ==
    IF ok THEN [written |-> <<ProfileChunk(u, pd)>>, raised |-> FALSE, count |-> 1]
    ELSE [written |-> <<>>, raised |-> TRUE, count |-> 0]

\* tempfile.TemporaryDirectory(): __enter__ creates a fresh directory, __exit__
\* removes it, however the block ends.
NewTempDir(dirs) == CHOOSE d \in 1..(Cardinality(dirs) + 1) : d \notin dirs
EnterTempDir(dirs) == dirs \cup {NewTempDir(dirs)}
ExitTempDirOnReturn(dirs, d, raised) == IF raised THEN dirs ELSE dirs \ {d}

ExitTempDir(dirs, d, raised) == dirs \ {d}

RECURSIVE split_documents(_, _, _)
split_documents(files, repo_url, user_id) ==
    IF files = <<>> THEN <<>>
    ELSE create_documents(Head(files).text,
                          [source |-> repo_url, user_id |-> user_id,
                           file_path |-> Head(files).path])
         \o split_documents(Tail(files), repo_url, user_id)

\* ingest_github_repo(repo_url, user_id): clone and load (may raise), split, tag,
\* store (may raise), inside the temporary directory.
ingest_github_repo(dirs, repo_url, user_id, repo, ok) ==
    LET d == NewTempDir(dirs)
        inside == EnterTempDir(dirs)
        chunks == IF repo.loaded THEN split_documents(repo.files, repo_url, user_id)
                  ELSE <<>>
        raised == ~repo.loaded \/ ~ok
    IN  [written |-> IF raised THEN <<>> ELSE chunks, raised |-> raised,
         count |-> Len(chunks), temp_dirs |-> ExitTempDir(inside, d, raised)]

----------------------------------------------------------------------------
(* The ingestion routes *)

TreeSegment == <<"/", "tree", "/">>
BlobSegment == <<"/", "blob", "/">>
UserPaste == <<"user-paste">>

is_profile(text) ==
    /\ ~Contains(text, TreeSegment)
    /\ ~Contains(text, BlobSegment)
    /\ Len(Split(RStrip(text, "/"), "/")) = 4

\* The function ingest_text_route hands the text to
Handler(text) ==
    IF StartsWith(text, GithubPrefix) /\ is_profile(text)
    THEN IF Len(Split(RStrip(text, "/"), "/")) = 4
         THEN "scrape_github_profile"
         ELSE "ingest_github_repo"
    ELSE "ingest_text"

Success(fields) == [status |-> 200, body |-> fields]
HTTPException500 == [status |-> 500]

\* ingest_text_route(request): the handler that ran, what it wrote, the response.
\* The services are called without a user_id: their default is "all".
ingest_text_route(dirs, request, pd, repo, ok) ==
    LET text == request.text
        source == IF "source" \in DOMAIN request THEN request.source ELSE UserPaste
        h == Handler(text)
    IN  IF h = "scrape_github_profile"
        THEN LET r == scrape_github_profile(text, pd, ok)
             IN  [handler |-> h, written |-> r.written, temp_dirs |-> dirs,
                  resp |-> IF r.raised THEN HTTPException500
                           ELSE Success([success |-> TRUE, message |-> "Profile ingested"])]
        ELSE IF h = "ingest_github_repo"
        THEN LET r == ingest_github_repo(dirs, text, "all", repo, ok)
             IN  [handler |-> h, written |-> r.written, temp_dirs |-> r.temp_dirs,
                  resp |-> IF r.raised THEN HTTPException500
                           ELSE Success([success |-> TRUE, chunks |-> r.count])]
        ELSE LET r == ingest_text(text, source, "all", ok)
             IN  [handler |-> h, written |-> r.written, temp_dirs |-> dirs,
                  resp |-> IF r.raised THEN HTTPException500
                           ELSE Success([success |-> TRUE, chunks |-> r.count])]

\* ingest_file_route(file): a PDF's extracted text or the decoded bytes, then
\* ingest_text with the file name as source.
ingest_file_route(file, ok) ==
    IF ~file.readable THEN [handler |-> "none", written |-> <<>>, resp |-> HTTPException500]
    ELSE LET r == ingest_text(file.text_content, file.filename, "all", ok)
         IN  [handler |-> "ingest_text", written |-> r.written,
              resp |-> IF r.raised THEN HTTPException500
                       ELSE Success([success |-> TRUE, chunks |-> r.count])]

----------------------------------------------------------------------------
(* The chat handler *)

K == 3

PreFilterNone(metadata, user_id) == TRUE

\* pre_filter = {"user_id": {"$eq": user_id}}
PreFilter(metadata, user_id) ==
    "user_id" \in DOMAIN metadata /\ metadata.user_id = user_id

Matching(collection, user_id) ==
    {c \in BagToSet(collection) : PreFilter(c.metadata, user_id)}

MatchingCount(collection, user_id) ==
    LET M == Matching(collection, user_id)
    IN  IF M = {} THEN 0 ELSE BagCardinality([c \in M |-> CopiesIn(c, collection)])

Occurrences(q, c) == Cardinality({i \in DOMAIN q : q[i] = c})

\* retriever.ainvoke(question): the k nearest of the chunks that pass the filter
\* (all of them when there are fewer), nearest first. Which are nearest is the
\* embedding's business: every ranking is possible.
Rankings(collection, user_id, k) ==
    LET M == Matching(collection, user_id)
        n == Min(k, MatchingCount(collection, user_id))
    IN  {q \in [1..n -> M] : \A c \in M : Occurrences(q, c) <= CopiesIn(c, collection)}

Separator == [text |-> <<"\n", "\n">>]

\* "\n\n".join(page_content of each document)
JoinContext(documents) ==
    [i \in 1..(2 * Len(documents) - 1) |->
        IF i % 2 = 1 THEN documents[(i + 1) \div 2].page_content ELSE Separator]

Unknown == <<"unknown">>

SourceOf(metadata) == IF "source" \in DOMAIN metadata THEN metadata.source ELSE Unknown

RECURSIVE Dedup(_)
Dedup(q) ==
    IF q = <<>> THEN <<>>
    ELSE LET rest == Dedup(SubSeq(q, 1, Len(q) - 1))
         IN  IF \E i \in DOMAIN rest : rest[i] = q[Len(q)] THEN rest
             ELSE Append(rest, q[Len(q)])

CitationsCollapsed(documents) ==
    Dedup([i \in DOMAIN documents |-> [source |-> SourceOf(documents[i].metadata)]])

\* [{"source": d.metadata.get("source", "unknown")} for d in docs]
Citations(documents) ==
    [i \in DOMAIN documents |-> [source |-> SourceOf(documents[i].metadata)]]

\* base64(json.dumps(sources)): the X-Sources header
EncodeSources(srcs) == [base64_json |-> srcs]

NothingSent == [started |-> FALSE, x_sources |-> EncodeSources(<<>>), tokens |-> 0]

\* chat(request, current_user) up to its return: an error payload, or a
\* StreamingResponse whose generator has not run yet.
chat(collection, messages, user_id, ranking, raises) ==
    IF messages = <<>> THEN [kind |-> "error", docs |-> <<>>, context_text |-> <<>>,
                             sources |-> <<>>]
    ELSE IF raises THEN [kind |-> "error", docs |-> <<>>, context_text |-> <<>>,
                         sources |-> <<>>]
    ELSE [kind |-> "stream", docs |-> ranking, context_text |-> JoinContext(ranking),
          sources |-> Citations(ranking)]

----------------------------------------------------------------------------
(* What the analyzer's collaborators may answer *)

Dates == 1..MaxDays
\* today is the day before the last date, the last date, or later than every date
Todays == {MaxDays - 1, MaxDays, MaxDays + 1}

CountStrs == {<<"0">>, <<"2">>, <<"3">>, <<"5">>}

InjectiveSeqs(S, n) ==
    {p \in [1..n -> S] : \A i, j \in 1..n : i # j => p[i] # p[j]}

\* A calendar with one cell per date of p, in document order, c[i] the count of p[i].
Calendar(p, c) ==
    [kind |-> "ok", status_code |-> 200,
     cells |-> [i \in DOMAIN p |-> [date |-> p[i], count |-> c[i]]]]

ProfileUrls == {GithubPrefix \o <<"u">>, GithubPrefix \o <<"u", "/">>}

MainResponses ==
    {[kind |-> "exception"],
     [kind |-> "ok", status_code |-> 404],
     [kind |-> "ok", status_code |-> 200],
     [kind |-> "ok", status_code |-> 200, counter |-> <<"1", "2">>],
     [kind |-> "ok", status_code |-> 200, counter |-> <<"1", ".", "2", "k">>]}

\* Calendar pages for the analyzer as a whole: a headline or none, and at most
\* MaxCells cells, each with or without its data-date and data-count.
Headlines == {<<"1", ",", "2", "3", "4", " ", "contributions">>, <<"No", " ", "contributions">>}

CellKinds ==
    {[date |-> d, count |-> c] : d \in {MaxDays - 1, MaxDays},
                                 c \in {<<"0">>, <<"3">>, <<"x">>}}
    \cup {[date |-> MaxDays]} \cup {[count |-> <<"x">>]}

OneCellPerDate(cells) ==
    \A i, j \in DOMAIN cells :
        (i # j /\ "date" \in DOMAIN cells[i] /\ "date" \in DOMAIN cells[j])
            => cells[i].date # cells[j].date

Page(h, cells) ==
    IF h = <<>> THEN [kind |-> "ok", status_code |-> 200, cells |-> cells]
    ELSE [kind |-> "ok", status_code |-> 200, h2 |-> h, cells |-> cells]

FullCollection ==
    [totalCommitContributions |-> 40, totalIssueContributions |-> 4,
     totalPullRequestContributions |-> 6, totalPullRequestReviewContributions |-> 2]

GraphQLUsers ==
    {[repositories |-> [totalCount |-> 7], contributionsCollection |-> FullCollection],
     [repositories |-> Null, contributionsCollection |-> FullCollection],
     [repositories |-> [totalCount |-> 7], contributionsCollection |-> Null],
     [repositories |-> [totalCount |-> 7],
      contributionsCollection |-> [totalCommitContributions |-> 40]]}

GraphQLResponses ==
    {[kind |-> "exception"],
     [kind |-> "json", json |-> [message |-> "Bad credentials"]],
     [kind |-> "json", json |-> [data |-> Null, errors |-> "x"]],
     [kind |-> "json", json |-> [data |-> [user |-> Null], errors |-> "x"]]}
    \cup {[kind |-> "json", json |-> [data |-> [user |-> u]]] : u \in GraphQLUsers}

----------------------------------------------------------------------------
(* The analyzer, sub-step by sub-step *)

InitPipelineVars ==
    /\ store = EmptyBag
    /\ temp_dirs = {}
    /\ resp = [status |-> 0]
    /\ req = [kind |-> "none"]
    /\ chat_pc = "idle"
    /\ chat_user = "nobody"
    /\ docs = <<>>
    /\ context_text = <<>>
    /\ sources = <<>>
    /\ sent = NothingSent

Contributions(res) ==
    /\ pc = "contrib"
    /\ LET r == ScrapeContributions(profile_data, res, today)
       IN  /\ profile_data' = r.pd
           /\ days' = r.days
           /\ failed' = IF r.failed THEN failed \cup {"contrib"} ELSE failed
    /\ before' = profile_data
    /\ pc' = "graphql"
    /\ UNCHANGED <<url, today, token, pipelineVars>>

(* The streak statistics alone: the calendar sub-step on every calendar of at *)
(* most MaxDays cells, one per date, in any document order.                  *)
InitStreak ==
    /\ InitPipelineVars
    /\ pc = "contrib"
    /\ url = GithubPrefix \o <<"u">>
    /\ today \in Todays
    /\ token = FALSE
    /\ profile_data = DefaultProfileData
    /\ days = <<>>
    /\ before = DefaultProfileData
    /\ failed = {}

StreakStep ==
    /\ pc = "contrib"
    /\ \E n \in 0..MaxDays :
        \E p \in InjectiveSeqs(Dates, n), c \in [1..n -> CountStrs] :
            Contributions(Calendar(p, c))

NextStreak == StreakStep

SpecStreak == InitStreak /\ [][NextStreak]_vars

(* One call of scrape_github_profile, with every answer of its collaborators. *)
Main ==
    /\ pc = "main"
    /\ \E res \in MainResponses :
         LET r == ScrapeMain(profile_data, res)
         IN  /\ profile_data' = r.pd
             /\ failed' = IF r.failed THEN failed \cup {"main"} ELSE failed
    /\ before' = profile_data
    /\ pc' = "contrib"
    /\ UNCHANGED <<url, today, token, days, pipelineVars>>

ContributionsFetch ==
    /\ pc = "contrib"
    /\ \/ \E res \in {[kind |-> "exception"], [kind |-> "ok", status_code |-> 404]} :
            Contributions(res)
       \/ \E h \in Headlines \cup {<<>>}, n \in 0..MaxCells :
            \E cells \in [1..n -> CellKinds] :
                OneCellPerDate(cells) /\ Contributions(Page(h, cells))

GraphQLQuery ==
    /\ pc = "graphql"
    /\ \E res \in GraphQLResponses :
         LET r == GraphQL(profile_data, token, res)
         IN  /\ profile_data' = r.pd
             /\ failed' = IF r.failed THEN failed \cup {"graphql"} ELSE failed
    /\ before' = profile_data
    /\ pc' = "summary"
    /\ UNCHANGED <<url, today, token, days, pipelineVars>>

\* The summary is written outside every try block: a vector store error propagates.
CreateSummary ==
    /\ pc = "summary"
    /\ \E ok \in BOOLEAN :
          /\ store' = aadd_documents(store, <<ProfileChunk(url, profile_data)>>, ok)
          /\ pc' = IF ok THEN "done" ELSE "raised"
    /\ UNCHANGED <<url, today, token, profile_data, days, before, failed, temp_dirs,
                   resp, req, chat_pc, chat_user, docs, context_text, sources, sent>>

InitAnalyzer ==
    /\ InitPipelineVars
    /\ pc = "main"
    /\ url \in ProfileUrls
    /\ today \in Todays
    /\ token \in BOOLEAN
    /\ profile_data = DefaultProfileData
    /\ days = <<>>
    /\ before = DefaultProfileData
    /\ failed = {}

NextAnalyzer == Main \/ ContributionsFetch \/ GraphQLQuery \/ CreateSummary

SpecAnalyzer == InitAnalyzer /\ [][NextAnalyzer]_vars

----------------------------------------------------------------------------
(* The HTTP API: the ingestion routes and the chat route *)

Users == {"u1", "u2"}

Note == <<"note">>
Sky == <<"The", " ", "sky", " ", "is", " ", "blue.">>
Grass == <<"Grass", " ", "is", " ", "green.">>
Blank == <<" ", "\n">>
Question == <<"What", " ", "color", " ", "is", " ", "the", " ", "sky?">>

ProfileUrl == GithubPrefix \o <<"u">>
RepoUrl == GithubPrefix \o <<"u", "/", "r">>
TreeUrl == GithubPrefix \o <<"u">> \o TreeSegment \o <<"m">>

RouteTexts ==
    {<<>>, Blank, Sky, GithubPrefix, ProfileUrl, ProfileUrl \o <<"/">>, RepoUrl,
     RepoUrl \o <<"/">>, TreeUrl}

RouteRequests ==
    {[text |-> t] : t \in RouteTexts} \cup {[text |-> t, source |-> Note] : t \in {Sky, Blank}}

\* What the analyzer finds when a route or a caller runs it: no token configured
RouteProfileData ==
    {profile_data_of(main, [kind |-> "exception"], FALSE, [kind |-> "exception"], MaxDays) :
        main \in {[kind |-> "exception"],
                  [kind |-> "ok", status_code |-> 200, counter |-> <<"1", "2">>]}}

RepoOutcomes ==
    {[loaded |-> FALSE],
     [loaded |-> TRUE, files |-> <<>>],
     [loaded |-> TRUE, files |-> <<[path |-> <<"README">>, text |-> Grass]>>]}

Files ==
    {[readable |-> FALSE],
     [readable |-> TRUE, filename |-> <<"f.txt">>, text_content |-> Sky],
     [readable |-> TRUE, filename |-> <<"f.txt">>, text_content |-> <<>>]}

\* What the handler that runs meets: the analyzer's statistics, the repository,
\* the vector store up or down
RouteEnvs(h) ==
    {[pd |-> p, repo |-> r, ok |-> o] :
        p \in IF h = "scrape_github_profile" THEN RouteProfileData ELSE {DefaultProfileData},
        r \in IF h = "ingest_github_repo" THEN RepoOutcomes ELSE {[loaded |-> FALSE]},
        o \in BOOLEAN}

IngestTextRoute ==
    /\ \E by \in Users, request \in RouteRequests :
        \E env \in RouteEnvs(Handler(request.text)) :
         LET r == ingest_text_route(temp_dirs, request, env.pd, env.repo, env.ok)
         IN  /\ BagCardinality(store) + Len(r.written) <= MaxStore
             /\ store' = aadd_documents(store, r.written, TRUE)
             /\ temp_dirs' = r.temp_dirs
             /\ resp' = r.resp
             /\ req' = [kind |-> "text_route", by |-> by, text |-> request.text,
                        handler |-> r.handler, written |-> r.written]
    /\ UNCHANGED <<chat_pc, chat_user, docs, context_text, sources, sent, analyzerVars>>

IngestFileRoute ==
    /\ \E by \in Users, file \in Files, ok \in BOOLEAN :
         LET r == ingest_file_route(file, ok)
         IN  /\ BagCardinality(store) + Len(r.written) <= MaxStore
             /\ store' = aadd_documents(store, r.written, TRUE)
             /\ resp' = r.resp
             /\ req' = [kind |-> "file_route", by |-> by,
                        text |-> IF file.readable THEN file.text_content ELSE <<>>,
                        handler |-> r.handler, written |-> r.written]
    /\ UNCHANGED <<temp_dirs, chat_pc, chat_user, docs, context_text, sources, sent,
                   analyzerVars>>

ChatRequest ==
    /\ chat_pc \in {"idle", "done", "error", "aborted"}
    /\ \E user_id \in Users, messages \in {<<>>, <<Question>>}, raises \in BOOLEAN :
         \E ranking \in Rankings(store, user_id, K) :
            LET r == chat(store, messages, user_id, ranking, raises)
            IN  /\ chat_user' = user_id
                /\ chat_pc' = IF r.kind = "stream" THEN "streaming" ELSE "error"
                /\ docs' = r.docs
                /\ context_text' = r.context_text
                /\ sources' = r.sources
                /\ sent' = NothingSent
    /\ UNCHANGED <<store, temp_dirs, resp, req, analyzerVars>>

\* The transport starts the response: status and headers go out before the body.
SendHeaders ==
    /\ chat_pc = "streaming"
    /\ ~sent.started
    /\ sent' = [sent EXCEPT !.started = TRUE, !.x_sources = EncodeSources(sources)]
    /\ UNCHANGED <<store, temp_dirs, resp, req, chat_pc, chat_user, docs, context_text,
                   sources, analyzerVars>>

\* generate() yields one chunk of chain.astream(...)
StreamToken ==
    /\ chat_pc = "streaming"
    /\ sent.started
    /\ sent.tokens < MaxTokens
    /\ sent' = [sent EXCEPT !.tokens = @ + 1]
    /\ UNCHANGED <<store, temp_dirs, resp, req, chat_pc, chat_user, docs, context_text,
                   sources, analyzerVars>>

\* chain.astream(...) is exhausted
StreamEnd ==
    /\ chat_pc = "streaming"
    /\ sent.started
    /\ chat_pc' = "done"
    /\ UNCHANGED <<store, temp_dirs, resp, req, chat_user, docs, context_text, sources,
                   sent, analyzerVars>>

\* chain.astream(...) raises inside generate(), which runs after chat returned: the
\* exception reaches the transport.
StreamError ==
    /\ chat_pc = "streaming"
    /\ sent.started
    /\ chat_pc' = "aborted"
    /\ UNCHANGED <<store, temp_dirs, resp, req, chat_user, docs, context_text, sources,
                   sent, analyzerVars>>

InitIdleAnalyzer ==
    /\ pc = "idle"
    /\ url = <<>>
    /\ today = MaxDays
    /\ token = FALSE
    /\ profile_data = DefaultProfileData
    /\ days = <<>>
    /\ before = DefaultProfileData
    /\ failed = {}

Init == InitPipelineVars /\ InitIdleAnalyzer

Next ==
    \/ IngestTextRoute
    \/ IngestFileRoute
    \/ ChatRequest
    \/ SendHeaders
    \/ StreamToken
    \/ StreamEnd
    \/ StreamError

Spec == Init /\ [][Next]_vars

----------------------------------------------------------------------------
(* The services called directly, each with the user_id its caller passes, and *)
(* the chat route reading what they stored.                                   *)

Doc == <<"doc">>

ServiceIngests ==
    {[text |-> t, source |-> src, user_id |-> "u1"] : t \in {Sky, Grass}, src \in {Note, Doc}}
    \cup {[text |-> Sky, source |-> Note, user_id |-> "u2"],
          [text |-> Sky, source |-> Note, user_id |-> "all"],
          [text |-> Blank, source |-> Note, user_id |-> "u1"]}

IngestTextCall ==
    /\ \E call \in ServiceIngests, ok \in BOOLEAN :
         LET r == ingest_text(call.text, call.source, call.user_id, ok)
         IN  /\ BagCardinality(store) + Len(r.written) <= MaxChunks
             /\ store' = aadd_documents(store, r.written, TRUE)
    /\ UNCHANGED <<temp_dirs, resp, req, chat_pc, chat_user, docs, context_text, sources,
                   sent, analyzerVars>>

IngestRepoCall ==
    /\ \E user_id \in {"u2"}, repo \in RepoOutcomes, ok \in BOOLEAN :
         LET r == ingest_github_repo(temp_dirs, RepoUrl, user_id, repo, ok)
         IN  /\ BagCardinality(store) + Len(r.written) <= MaxChunks
             /\ store' = aadd_documents(store, r.written, TRUE)
             /\ temp_dirs' = r.temp_dirs
    /\ UNCHANGED <<resp, req, chat_pc, chat_user, docs, context_text, sources, sent,
                   analyzerVars>>

ScrapeProfileCall ==
    /\ \E pd \in RouteProfileData, ok \in BOOLEAN :
         LET r == scrape_github_profile(ProfileUrl, pd, ok)
         IN  /\ BagCardinality(store) + Len(r.written) <= MaxChunks
             /\ store' = aadd_documents(store, r.written, TRUE)
    /\ UNCHANGED <<temp_dirs, resp, req, chat_pc, chat_user, docs, context_text, sources,
                   sent, analyzerVars>>

NextService ==
    \/ IngestTextCall
    \/ IngestRepoCall
    \/ ScrapeProfileCall
    \/ ChatRequest
    \/ SendHeaders
    \/ StreamToken
    \/ StreamEnd
    \/ StreamError

SpecService == Init /\ [][NextService]_vars

----------------------------------------------------------------------------
(* One call of ingest_github_repo at a time, from entering the with block to *)
(* leaving it, on every way out.                                             *)

\* Where the block is left: GitLoader fails to clone, fails to load a file, the
\* splitter raises, the vector store raises, or the call returns.
ExitPaths == {"clone", "load", "split", "store", "return"}

RepoCalls ==
    {[repo_url |-> u, user_id |-> "all"] : u \in {RepoUrl, RepoUrl \o <<"/">>}}
    \cup {[repo_url |-> RepoUrl, user_id |-> "u1"]}

LoadedRepos == {r \in RepoOutcomes : r.loaded}

RepoEnter ==
    /\ pc \in {"idle", "returned", "raised"}
    /\ \E call \in RepoCalls :
         req' = [kind |-> "ingest_github_repo", repo_url |-> call.repo_url,
                 user_id |-> call.user_id]
    /\ temp_dirs' = EnterTempDir(temp_dirs)
    /\ pc' = "temp_dir"
    /\ UNCHANGED <<store, resp, chat_pc, chat_user, docs, context_text, sources, sent,
                   url, today, token, profile_data, days, before, failed>>

RepoExit ==
    /\ pc = "temp_dir"
    /\ \E path \in ExitPaths, loaded \in LoadedRepos :
         LET repo == IF path \in {"clone", "load", "split"} THEN [loaded |-> FALSE]
                     ELSE loaded
             d == CHOOSE x \in temp_dirs : TRUE
             r == ingest_github_repo(temp_dirs \ {d}, req.repo_url, req.user_id, repo,
                                     path # "store")
         IN  /\ BagCardinality(store) + Len(r.written) <= MaxChunks
             /\ store' = aadd_documents(store, r.written, TRUE)
             /\ temp_dirs' = r.temp_dirs
             /\ pc' = IF r.raised THEN "raised" ELSE "returned"
             /\ failed' = IF r.raised THEN failed \cup {path} ELSE failed
    /\ UNCHANGED <<resp, req, chat_pc, chat_user, docs, context_text, sources, sent,
                   url, today, token, profile_data, days, before>>

NextRepo == RepoEnter \/ RepoExit

SpecRepo == Init /\ [][NextRepo]_vars

----------------------------------------------------------------------------
(* The embedding service: SBERTService.embed_batch and the /embed/batch route *)

Dimensions == 384

\* model.encode(text, normalize_embeddings=True): the vector of a text
Encode(text) == [embedding_of |-> text]

\* text and text.strip()
IsValidText(text) == text # <<>> /\ Strip(text) # <<>>

ValueError(message) == [raised |-> TRUE, error |-> message]

\* SBERTService.embed_batch(texts)
embed_batch(texts) ==
    IF texts = <<>> THEN ValueError("Texts list cannot be empty")
    ELSE LET valid_texts == SelectSeq(texts, IsValidText)
         IN  IF Len(valid_texts) = 0 THEN ValueError("No valid texts provided")
             ELSE [raised |-> FALSE,
                   embeddings |-> [i \in DOMAIN valid_texts |-> Encode(valid_texts[i])]]

\* POST /embed/batch: the HTTPException(400) for an empty list is raised inside the
\* try block and caught by except Exception, as a ValueError of the service is.
embed_batch_route(texts) ==
    IF texts = <<>> THEN HTTPException500
    ELSE LET r == embed_batch(texts)
         IN  IF r.raised THEN HTTPException500
             ELSE Success([embeddings |-> r.embeddings, dimensions |-> Dimensions])

EmbedTexts == {<<>>, Blank, Sky, Grass}

TextLists == UNION {[1..n -> EmbedTexts] : n \in 0..MaxTexts}

EmbedBatchCall ==
    /\ \E texts \in TextLists :
        /\ req' = [kind |-> "embed_batch", texts |-> texts]
        /\ resp' = embed_batch(texts)
    /\ UNCHANGED <<store, temp_dirs, chat_pc, chat_user, docs, context_text, sources,
                   sent, analyzerVars>>

EmbedBatchRoute ==
    /\ \E texts \in TextLists :
        /\ req' = [kind |-> "embed_batch_route", texts |-> texts]
        /\ resp' = embed_batch_route(texts)
    /\ UNCHANGED <<store, temp_dirs, chat_pc, chat_user, docs, context_text, sources,
                   sent, analyzerVars>>

NextEmbed == EmbedBatchCall \/ EmbedBatchRoute

SpecEmbed == Init /\ [][NextEmbed]_vars

----------------------------------------------------------------------------
(* Properties of the streak statistics *)

SetMax(S) == CHOOSE m \in S : \A x \in S : x <= m

IsAscending(ds) == \A i, j \in DOMAIN ds : i < j => ds[i].date < ds[j].date

AllActive(ds, i, j) == \A k \in i..j : ds[k].count > 0

\* The longest run of consecutive days with count > 0
MaxRun(ds) ==
    SetMax({0} \cup {x[2] - x[1] + 1 :
                        x \in {y \in (DOMAIN ds) \X (DOMAIN ds) :
                                  y[1] <= y[2] /\ AllActive(ds, y[1], y[2])}})

StreaksComputed == pc = "graphql" /\ "contrib" \notin failed

\* C5: the longest streak is the length of the longest run of consecutive days,
\* in ascending date order, with count > 0; a run that ends at the last day counts,
\* and with no positive day it is 0.
C5_LongestStreak ==
    StreaksComputed =>
        /\ IsAscending(days)
        /\ profile_data.longestStreak = MaxRun(days)
        /\ (\A i \in DOMAIN days : days[i].count = 0) => profile_data.longestStreak = 0

\* C5 witness: days [(d1,5),(d2,0),(d3,3),(d4,2)] gave longest streak 2.
C5_Witness ==
    /\ StreaksComputed
    /\ days = <<[date |-> 1, count |-> 5], [date |-> 2, count |-> 0],
                [date |-> 3, count |-> 3], [date |-> 4, count |-> 2]>>
    /\ profile_data.longestStreak = 2

\* The last zero-count day that is not dated today (0 when there is none): the
\* backwards scan stops there.
LastBreak(ds, now) ==
    SetMax({0} \cup {i \in DOMAIN ds : ds[i].count = 0 /\ ds[i].date # now})

\* The length of the run of count > 0 days that ends at day i
RunEndingAt(ds, i) ==
    SetMax({n \in 0..i : AllActive(ds, i - n + 1, i)})

\* C6: the current streak counts the count > 0 days backwards from the most
\* recent day up to the first zero-count day that is not dated today; a most
\* recent day dated today with count 0 is skipped, so the streak is the run ending
\* the day before; a most recent day not dated today with count 0 gives 0.
C6_CurrentStreak ==
    StreaksComputed =>
        LET n == Len(days)
            cur == profile_data.currentStreak
        IN  /\ cur = Cardinality({i \in (LastBreak(days, today) + 1)..n : days[i].count > 0})
            /\ (n >= 2 /\ days[n].date = today /\ days[n].count = 0 /\ days[n - 1].count > 0)
                  => cur = RunEndingAt(days, n - 1) /\ cur >= 1
            /\ (n >= 1 /\ days[n].date # today /\ days[n].count = 0) => cur = 0

\* C6 witness: today is the most recent day and has count 0, the two days before
\* it are active, and the current streak is 2.
C6_Witness ==
    /\ StreaksComputed
    /\ Len(days) >= 3
    /\ days[Len(days)].date = today /\ days[Len(days)].count = 0
    /\ days[Len(days) - 1].count > 0 /\ days[Len(days) - 2].count > 0
    /\ profile_data.currentStreak = 2

----------------------------------------------------------------------------
(* Properties of the analyzer's sub-steps *)

Breakdown == {"commits", "issues", "pullRequests", "reviews"}

\* C7: isExact is true only with a token and a successful query; with no token, or
\* when the GraphQL step fails, isExact stays false and repos, commits, issues,
\* pullRequests and reviews keep the values they had before the step.
C7_GraphQLFailureKeepsValues ==
    pc = "summary" =>
        /\ profile_data.isExact => token /\ "graphql" \notin failed
        /\ (~token \/ "graphql" \in failed) =>
              /\ ~profile_data.isExact
              /\ \A f \in Breakdown \cup {"repos"} : profile_data[f] = before[f]

\* C8: whatever sub-steps fail, the call completes, the fields of a failed sub-step
\* are at their zero defaults when it ends, and exactly one summary chunk with
\* type "profile" and source profile_url is written.
C8_FailedStepsKeepDefaults ==
    /\ (pc = "contrib" /\ "main" \in failed) => profile_data.repos = 0
    /\ (pc = "graphql" /\ "contrib" \in failed) =>
          \A f \in {"totalContributions", "currentStreak", "longestStreak", "activeDays"} :
              profile_data[f] = 0
    /\ (pc = "summary" /\ "graphql" \in failed) =>
          /\ ~profile_data.isExact
          /\ \A f \in Breakdown : profile_data[f] = 0
    /\ pc = "done" =>
          /\ BagCardinality(store) = 1
          /\ \A c \in BagToSet(store) : c.metadata = [source |-> url, type |-> "profile"]

----------------------------------------------------------------------------
(* Properties of the ingestion routes and the chat route *)

Tenants == Users \cup {"all"}

TaggedFor(chunk, user_id) ==
    "user_id" \in DOMAIN chunk.metadata /\ chunk.metadata.user_id = user_id

Answered == chat_pc \in {"streaming", "done", "aborted"}

\* C1: whatever was ingested for whichever tenants, the documents retrieved for a
\* chat request of tenant A never include a chunk tagged with another tenant B,
\* and the context and the sources are built from the retrieved documents only.
C1_TenantIsolation ==
    /\ \A i \in DOMAIN docs : \A B \in Tenants \ {chat_user} : ~TaggedFor(docs[i], B)
    /\ \A i \in DOMAIN docs : docs[i] \in BagToSet(store)
    /\ Answered => context_text = JoinContext(docs) /\ Len(sources) = Len(docs)

\* Chunks of both tenants are stored and tenant u1's request retrieved some.
C1_Witness ==
    /\ Answered
    /\ chat_user = "u1"
    /\ docs # <<>>
    /\ \E c \in BagToSet(store) : TaggedFor(c, "u2")
    /\ \E c \in BagToSet(store) : TaggedFor(c, "u1")

\* C2: every chunk an ingestion request wrote carries a source and the user_id of
\* the tenant that sent the request.
C2_ChunksTaggedWithRequester ==
    req.kind # "none" =>
        \A i \in DOMAIN req.written :
            /\ "source" \in DOMAIN req.written[i].metadata
            /\ TaggedFor(req.written[i], req.by)

\* The path segments of a github.com URL: what follows the host, split at "/"
PathSegments(text) ==
    LET path == Split(SubSeq(text, Len(GithubPrefix) + 1, Len(text)), "/")
    IN  Cardinality({i \in DOMAIN path : path[i] # <<>>})

HandlerByClass(text) ==
    IF ~StartsWith(text, GithubPrefix) THEN "ingest_text"
    ELSE IF PathSegments(text) = 1 /\ ~Contains(text, TreeSegment)
            /\ ~Contains(text, BlobSegment)
         THEN "scrape_github_profile"
    ELSE IF PathSegments(text) >= 2 THEN "ingest_github_repo"
    ELSE "ingest_text"

\* C3: the text route hands a profile URL (one path segment, no /tree/ or /blob/)
\* to scrape_github_profile, a URL of two or more path segments to
\* ingest_github_repo, and every other text to ingest_text.
C3_RoutedByClass ==
    req.kind = "text_route" => req.handler = HandlerByClass(req.text)

\* C4: ingesting an empty or whitespace-only text answers with an error and writes
\* nothing; it never answers success with a chunk count.
C4_BlankTextRejected ==
    (req.kind # "none" /\ req.handler = "ingest_text" /\ Strip(req.text) = <<>>) =>
        /\ resp.status # 200
        /\ req.written = <<>>

\* C9: no error of the chat route reaches the transport: a call ends with a
\* complete answer stream or with an error payload, never with an aborted response.
C9_NoErrorEscapes == chat_pc # "aborted"

C10_OnePerChunk ==
    Answered =>
        /\ Len(docs) <= K
        /\ Len(sources) = Len(docs)
        /\ \A i \in DOMAIN docs :
            /\ sources[i] = [source |-> SourceOf(docs[i].metadata)]
            /\ context_text[2 * i - 1] = docs[i].page_content
        /\ sent.tokens > 0 => sent.started /\ sent.x_sources = EncodeSources(sources)

\* C10: an answered question has one {source} entry per retrieved chunk, at most
\* K, in the order of the chunks and of their texts in the context, entries of the
\* same source kept apart; the list does not change once the answer is being
\* generated, and it has been sent when the first token is.
C10_SourcesPerChunkInOrder ==
    /\ []C10_OnePerChunk
    /\ [][chat_pc = "streaming" => sources' = sources /\ docs' = docs]_vars

\* More chunks pass the filter than are retrieved, two of the retrieved ones have
\* the same source, and a token has been streamed.
C10_Witness ==
    /\ Answered
    /\ MatchingCount(store, chat_user) > K
    /\ Len(docs) = K
    /\ docs[1].metadata.source = docs[2].metadata.source
    /\ docs[1].page_content # docs[2].page_content
    /\ sent.tokens > 0

----------------------------------------------------------------------------
(* Properties of repository ingestion *)

\* C11: a call of ingest_github_repo holds exactly one temporary directory while
\* it runs, and none is left when it has ended, whether it returned or raised at
\* the clone, the load, the split or the vector store write.
C11_WorkspaceRemoved ==
    /\ pc = "temp_dir" => Cardinality(temp_dirs) = 1
    /\ pc \in {"returned", "raised"} => temp_dirs = {}

\* Calls have ended on each of the four failing paths, and the last one returned.
C11_Witness ==
    /\ pc = "returned"
    /\ failed = ExitPaths \ {"return"}
    /\ store # EmptyBag

----------------------------------------------------------------------------
(* Properties of the profile summary *)

IsProfileChunk(c) == "type" \in DOMAIN c.metadata /\ c.metadata.type = "profile"

\* C12: a profile summary chunk is stored without a user_id, and a question of any
\* tenant can retrieve it: a request that is answered while a profile summary is
\* stored, and that retrieved fewer than K chunks, retrieved the summary.
C12_ProfileRetrievableByAnyTenant ==
    /\ [](\A c \in BagToSet(store) : IsProfileChunk(c) => "user_id" \notin DOMAIN c.metadata)
    /\ [][(/\ chat_pc # "streaming"
           /\ chat_pc' = "streaming"
           /\ \E c \in BagToSet(store) : IsProfileChunk(c)
           /\ Len(docs') < K)
          => \E i \in DOMAIN docs' : IsProfileChunk(docs'[i])]_vars

----------------------------------------------------------------------------
(* Properties of the embedding service *)

OneVectorPerText(texts, embeddings) ==
    /\ Len(embeddings) = Len(texts)
    /\ \A i \in DOMAIN texts : embeddings[i] = Encode(texts[i])

\* C13: for a non-empty list of texts embed_batch returns one vector per text, the
\* i-th being the embedding of the i-th text; it fails only for the empty list.
C13_OneVectorPerText ==
    /\ req.kind = "embed_batch" =>
        IF req.texts = <<>> THEN resp.raised
        ELSE IF resp.raised THEN FALSE
        ELSE OneVectorPerText(req.texts, resp.embeddings)
    /\ req.kind = "embed_batch_route" =>
        IF req.texts = <<>> THEN resp.status # 200
        ELSE IF resp.status # 200 THEN FALSE
        ELSE OneVectorPerText(req.texts, resp.body.embeddings)

----------------------------------------------------------------------------
(* Ordering of the streak statistics *)

\* C14: for days with pairwise distinct dates, wherever today's date falls among
\* them, 0 <= currentStreak <= longestStreak <= activeDays <= number of days.
C14_StatisticsOrdered ==
    StreaksComputed =>
        /\ 0 <= profile_data.currentStreak
        /\ profile_data.currentStreak <= profile_data.longestStreak
        /\ profile_data.longestStreak <= profile_data.activeDays
        /\ profile_data.activeDays <= Len(days)

====
